---- MODULE Spec2Model ----
(***************************************************************************)
(* A model of whooshy's analysis front-end: stage composition              *)
(* (Composable.__or__, CompositeAnalyzer.__init__), the Token record and   *)
(* its copy, the tokenizers and filters as lazy generators, and the        *)
(* execution of a composed pipeline (CompositeAnalyzer.__call__).          *)
(*                                                                         *)
(* Text is a sequence of one-character strings.  Offsets are 0-based as in *)
(* Python; TLA+ sequences are 1-based, so value[i:j] is                    *)
(* SubSeq(value, i + 1, j).                                                *)
(***************************************************************************)
EXTENDS Integers, Sequences, FiniteSets, TLC

VARIABLES
    a, b, c,        \* the operands of a composition expression
    ab, bc,         \* a | b and b | c
    left, right,    \* (a | b) | c and a | (b | c)
    both,           \* (a | b) | (b | c)
    pipeline,       \* the CompositeAnalyzer being called (NoObj: filters applied by hand)
    value,          \* the text given to the call
    kwargs,         \* the call's keyword options, a dict
    no_morph,       \* the call's no_morph argument
    status,         \* "idle", "running", "exhausted", or the exception raised
    frames,         \* the chain of suspended generators, source first
    heap,           \* the Token records allocated so far; a reference is an index
    calls,          \* how each stage was invoked by the call
    held,           \* the references the consumer got, in order
    seen,           \* what each of them held when it was yielded
    copies,         \* the copies the consumer took
    equal,          \* the outcome of a == b: "none" before the comparison
    lang,           \* the language a LanguageAnalyzer is asked for
    resources       \* what the NLTK installation holds for it

compVars == <<a, b, c, ab, bc, left, right, both>>

callVars == <<pipeline, value, kwargs, no_morph, status, frames, heap, calls,
              held, seen, copies>>

auxVars == <<equal, lang, resources>>

(***************************************************************************)
(* Objects.  An object carries its class, its instance attributes          *)
(* (__dict__) and, for a CompositeAnalyzer, its items list.                *)
(***************************************************************************)
NoAttrs == [n \in {} |-> 0]

TokenizerClasses == {"IDTokenizer", "RegexTokenizer", "CharsetTokenizer", "PathTokenizer"}

FilterClasses == {"PassFilter", "LoggingFilter", "MultiFilter", "LowercaseFilter",
                  "StripFilter", "StopFilter", "CharsetFilter", "StemFilter"}

ComposableClasses == TokenizerClasses \cup FilterClasses \cup {"CompositeAnalyzer"}

\* isinstance(o, Tokenizer)
IsTokenizer(o) == o.cls \in TokenizerClasses

\* isinstance(o, Composable)
IsComposable(o) == o.cls \in ComposableClasses

\* isinstance(o, CompositeAnalyzer)
IsComposite(o) == o.cls = "CompositeAnalyzer"

\* Composable.is_morph, overridden by StemFilter
IsMorph(o) == o.cls = "StemFilter"

NoObj == [cls |-> "None", attrs |-> NoAttrs, items |-> <<>>]

\* A plain generator function: callable, but no Composable.
PlainFunction == [cls |-> "function", attrs |-> NoAttrs, items |-> <<>>]

IDTokenizer == [cls |-> "IDTokenizer", attrs |-> NoAttrs, items |-> <<>>]

\* The expression is a character class C, standing for the pattern [C]+.
RegexTokenizer(expression, gaps) ==
    [cls |-> "RegexTokenizer",
     attrs |-> [expression |-> expression, gaps |-> gaps],
     items |-> <<>>]

\* The expression is the set of characters that are no delimiter, standing
\* for a pattern like [^/]+.
PathTokenizer(expression) ==
    [cls |-> "PathTokenizer", attrs |-> [expr |-> expression], items |-> <<>>]

\* char_map maps a character to its replacement, a string; the empty string
\* (like None) makes the character a break.
CharsetTokenizer(char_map) ==
    [cls |-> "CharsetTokenizer", attrs |-> [char_map |-> char_map], items |-> <<>>]

PassFilter == [cls |-> "PassFilter", attrs |-> NoAttrs, items |-> <<>>]

LowercaseFilter == [cls |-> "LowercaseFilter", attrs |-> NoAttrs, items |-> <<>>]

\* maxsize None is MaxNone
MaxNone == -1

StopFilter(stop_list, minsize, maxsize, renumber) ==
    [cls |-> "StopFilter",
     attrs |-> [stops |-> stop_list, min |-> minsize, max |-> maxsize,
                renumber |-> renumber],
     items |-> <<>>]

StemFilter ==
    [cls |-> "StemFilter", attrs |-> [lang |-> "english", ignore |-> {}], items |-> <<>>]

\* MultiFilter(**kwargs): filters maps a mode to a filter.
MultiFilter(filters) ==
    [cls |-> "MultiFilter", attrs |-> [filters |-> filters], items |-> <<>>]

(***************************************************************************)
(* Composition.                                                            *)
(***************************************************************************)
Raised(kind) == [done |-> TRUE, outcome |-> kind, value |-> NoObj]

Returned(obj) == [done |-> TRUE, outcome |-> "ok", value |-> obj]

NotRun == [done |-> FALSE, outcome |-> "none", value |-> NoObj]

AppendOnly(items, comp) == Append(items, comp)

\* One turn of the constructor's first loop: splice a pipeline, append a stage.
ExtendOrAppend(items, comp) ==
    IF IsComposite(comp) THEN items \o comp.items ELSE Append(items, comp)

RECURSIVE CollectItems(_, _)
CollectItems(items, components) ==
    IF components = <<>> THEN items
    ELSE CollectItems(ExtendOrAppend(items, Head(components)), Tail(components))

TokenizerAfterSecond(items) == \E i \in 3..Len(items) : IsTokenizer(items[i])

\* The constructor's second loop: a Tokenizer among items[1:].
TokenizerAfterStart(items) == \E i \in 2..Len(items) : IsTokenizer(items[i])

CompositeAnalyzerInit(components) ==
    LET items == CollectItems(<<>>, components)
    IN  IF TokenizerAfterStart(items)
        THEN Raised("CompositionError")
        ELSE Returned([cls |-> "CompositeAnalyzer", attrs |-> NoAttrs, items |-> items])

OrUnchecked(self, other) == CompositeAnalyzerInit(<<self, other>>)

\* self | other
Or(self, other) ==
    IF ~IsComposable(other)
    THEN Raised("TypeError")
    ELSE CompositeAnalyzerInit(<<self, other>>)

\* x | y where x is itself the result of an expression: an exception raised
\* while evaluating an operand leaves the expression.
OrLeft(x, other) == IF x.outcome = "ok" THEN Or(x.value, other) ELSE x

OrRight(self, y) == IF y.outcome = "ok" THEN Or(self, y.value) ELSE y

OrBoth(x, y) ==
    IF x.outcome # "ok" THEN x
    ELSE IF y.outcome # "ok" THEN y
    ELSE Or(x.value, y.value)

(***************************************************************************)
(* The stages the composition expressions are built from.                  *)
(***************************************************************************)
WordChars == {"a", "S"}

StopWords == {<<"a">>}

Stages == {IDTokenizer, RegexTokenizer(WordChars, FALSE), LowercaseFilter,
           StopFilter(StopWords, 2, MaxNone, FALSE), StemFilter}

\* Nothing was compared, no LanguageAnalyzer was asked for.
IdleAux ==
    /\ equal = "none"
    /\ lang = ""
    /\ resources = NoAttrs

\* No call has been made.
IdleCall ==
    /\ pipeline = NoObj
    /\ value = <<>>
    /\ kwargs = NoAttrs
    /\ no_morph = FALSE
    /\ status = "idle"
    /\ frames = <<>>
    /\ heap = <<>>
    /\ calls = <<>>
    /\ held = <<>>
    /\ seen = <<>>
    /\ copies = <<>>

InitCompose ==
    /\ a \in Stages
    /\ b \in Stages
    /\ c \in Stages \cup {PlainFunction}
    /\ ab = NotRun
    /\ bc = NotRun
    /\ left = NotRun
    /\ right = NotRun
    /\ both = NotRun
    /\ IdleCall
    /\ IdleAux

ComposeAB ==
    /\ ~ab.done
    /\ ab' = Or(a, b)
    /\ UNCHANGED <<a, b, c, bc, left, right, both>>
    /\ UNCHANGED callVars
    /\ UNCHANGED auxVars

ComposeBC ==
    /\ ~bc.done
    /\ bc' = Or(b, c)
    /\ UNCHANGED <<a, b, c, ab, left, right, both>>
    /\ UNCHANGED callVars
    /\ UNCHANGED auxVars

ComposeLeft ==
    /\ ab.done
    /\ ~left.done
    /\ left' = OrLeft(ab, c)
    /\ UNCHANGED <<a, b, c, ab, bc, right, both>>
    /\ UNCHANGED callVars
    /\ UNCHANGED auxVars

ComposeRight ==
    /\ bc.done
    /\ ~right.done
    /\ right' = OrRight(a, bc)
    /\ UNCHANGED <<a, b, c, ab, bc, left, both>>
    /\ UNCHANGED callVars
    /\ UNCHANGED auxVars

ComposeBoth ==
    /\ ab.done
    /\ bc.done
    /\ ~both.done
    /\ both' = OrBoth(ab, bc)
    /\ UNCHANGED <<a, b, c, ab, bc, left, right>>
    /\ UNCHANGED callVars
    /\ UNCHANGED auxVars

NextCompose ==
    \/ ComposeAB
    \/ ComposeBC
    \/ ComposeLeft
    \/ ComposeRight
    \/ ComposeBoth

vars == <<compVars, callVars, auxVars>>

Spec == InitCompose /\ [][NextCompose]_vars
(***************************************************************************)
(* Claims about composition, checked under Spec.                           *)
(***************************************************************************)
\* The primitive operands of each expression, left to right.
LeavesAB == <<a, b>>

LeavesBC == <<b, c>>

LeavesABC == <<a, b, c>>

LeavesBoth == <<a, b, b, c>>

AllComposableStages(leaves) ==
    \A i \in 1..Len(leaves) : leaves[i].cls \in TokenizerClasses \cup FilterClasses

LateTokenizer(leaves) ==
    \E i \in 1..Len(leaves) : i >= 2 /\ leaves[i].cls \in TokenizerClasses

RejectsLateTokenizer(r, leaves) ==
    (r.done /\ AllComposableStages(leaves) /\ LateTokenizer(leaves))
        => (r.outcome = "CompositionError" /\ r.value = NoObj)

HoldsNoLateTokenizer(r) ==
    r.outcome = "ok" =>
        \A i \in 1..Len(r.value.items) : i >= 2 => ~IsTokenizer(r.value.items[i])

\* C1: an expression whose flattened operand list has a Tokenizer at an index
\* >= 1 raises CompositionError and yields no pipeline, so no constructed
\* pipeline holds a Tokenizer at an index >= 1.
C1_LateTokenizerRejected ==
    /\ RejectsLateTokenizer(ab, LeavesAB)
    /\ RejectsLateTokenizer(bc, LeavesBC)
    /\ RejectsLateTokenizer(left, LeavesABC)
    /\ RejectsLateTokenizer(right, LeavesABC)
    /\ RejectsLateTokenizer(both, LeavesBoth)
    /\ \A r \in {ab, bc, left, right, both} : HoldsNoLateTokenizer(r)

\* A Filter followed by a Tokenizer was rejected, and so was a second
\* Tokenizer placed after a constructed pipeline.
C1_Witness ==
    /\ ab.outcome = "ok"
    /\ left.outcome = "CompositionError"
    /\ IsTokenizer(c)
    /\ bc.outcome = "CompositionError"
    /\ ~IsTokenizer(b)

\* C2 (as claimed): every pipeline the operator constructs has a Tokenizer at
\* position 0.
C2_TokenizerFirst ==
    \A r \in {ab, bc, left, right, both} :
        r.outcome = "ok" => IsTokenizer(r.value.items[1])

FlatAndCounted(r, leaves) ==
    r.outcome = "ok" =>
        /\ \A i \in 1..Len(r.value.items) : ~IsComposite(r.value.items[i])
        /\ Len(r.value.items) = Len(leaves)

\* C3: for stages A, B, C, (A | B) | C and A | (B | C) both fail or both give
\* the stage list [A, B, C]; no stage list holds a pipeline, and its length
\* is the number of primitive stages composed.
C3_AssociativeAndFlat ==
    /\ (left.done /\ right.done /\ AllComposableStages(LeavesABC)) =>
          \/ left.outcome # "ok" /\ right.outcome # "ok"
          \/ /\ left.outcome = "ok"
             /\ right.outcome = "ok"
             /\ left.value.items = LeavesABC
             /\ right.value.items = LeavesABC
    /\ FlatAndCounted(ab, LeavesAB)
    /\ FlatAndCounted(bc, LeavesBC)
    /\ FlatAndCounted(left, LeavesABC)
    /\ FlatAndCounted(right, LeavesABC)
    /\ FlatAndCounted(both, LeavesBoth)

\* Both associations built the same three-stage pipeline, and a pipeline was
\* composed with a pipeline.
C3_Witness ==
    /\ left.outcome = "ok"
    /\ right.outcome = "ok"
    /\ left.value.items = <<a, b, c>>
    /\ both.outcome = "ok"
    /\ Len(both.value.items) = 4

\* C4 (as claimed): a right-hand operand that is no stage or pipeline makes
\* the composition fail with CompositionError.
C4_RaisesCompositionError ==
    /\ (bc.done /\ ~IsComposable(c)) => bc.outcome = "CompositionError"
    /\ (left.done /\ ab.outcome = "ok" /\ ~IsComposable(c))
          => left.outcome = "CompositionError"

\* C4 (amended): such a composition fails with TypeError and yields no
\* pipeline, for a stage and for a pipeline on the left.
C4_RaisesTypeError ==
    /\ (bc.done /\ ~IsComposable(c)) => (bc.outcome = "TypeError" /\ bc.value = NoObj)
    /\ (left.done /\ ab.outcome = "ok" /\ ~IsComposable(c))
          => (left.outcome = "TypeError" /\ left.value = NoObj)

\* A stage and a pipeline were each composed with a plain function.
C4_Witness ==
    /\ c = PlainFunction
    /\ bc.done
    /\ ab.outcome = "ok"
    /\ left.done
(***************************************************************************)
(* Text, dicts and the external collaborators.                             *)
(***************************************************************************)
\* value[i:j]
Slice(text, i, j) == SubSeq(text, i + 1, j)

\* value[i:j] for any 0 <= i and 0 <= j: Python clips the indices
PySlice(text, i, j) ==
    LET lo == IF i > Len(text) THEN Len(text) ELSE i
        hi == IF j > Len(text) THEN Len(text) ELSE j
    IN  IF hi <= lo THEN <<>> ELSE SubSeq(text, lo + 1, hi)

\* str.lower() on one character
LowerChar(ch) == IF ch = "S" THEN "s" ELSE ch

\* str.lower()
Lower(text) == [i \in 1..Len(text) |-> LowerChar(text[i])]

\* stemmer.stem(word): the plural endings of a word are dropped.
RECURSIVE Stem(_)
Stem(text) ==
    IF Len(text) >= 2 /\ text[Len(text)] \in {"s", "S"}
    THEN Stem(Slice(text, 0, Len(text) - 1))
    ELSE text

\* The end of the run of characters of cls that starts at offset i.
RECURSIVE RunEnd(_, _, _)
RunEnd(text, cls, i) ==
    IF i < Len(text) /\ text[i + 1] \in cls THEN RunEnd(text, cls, i + 1) ELSE i

\* expression.finditer(value) for the pattern [cls]+, from offset i on:
\* the non-overlapping matches, left to right.
RECURSIVE FindIter(_, _, _)
FindIter(text, cls, i) ==
    IF i >= Len(text) THEN <<>>
    ELSE IF text[i + 1] \in cls
         THEN <<[start |-> i, end |-> RunEnd(text, cls, i)]>>
                  \o FindIter(text, cls, RunEnd(text, cls, i))
         ELSE FindIter(text, cls, i + 1)

\* A keyword parameter with a default value.
Param(kw, name, default) == IF name \in DOMAIN kw THEN kw[name] ELSE default

\* The keyword arguments a signature does not name (its **kwargs).
Rest(kw, names) == [n \in (DOMAIN kw) \ names |-> kw[n]]

(***************************************************************************)
(* Token: a record is its __dict__.                                        *)
(***************************************************************************)
TokenNew(positions, chars, remove_stopwords, mode, kw) ==
    kw @@ [_positions |-> positions, _chars |-> chars,
           _remove_stopwords |-> remove_stopwords, _mode |-> mode,
           boost |-> 1, stopped |-> FALSE, text |-> <<>>, original_text |-> <<>>,
           pos |-> 0, start_char |-> 0, end_char |-> 0]

TokenCopyFlags(t) ==
    TokenNew(t._positions, t._chars, t._remove_stopwords, t._mode, NoAttrs)

\* Token.copy(): Token(**self.__dict__); no key of __dict__ is a named
\* parameter, so the defaults are bound and then overwritten.
TokenCopy(t) == TokenNew(FALSE, FALSE, TRUE, "", t)

\* Assignments to attributes of the record behind a reference.
Assign(h, ref, fields) == [h EXCEPT ![ref] = fields @@ @]

\* An assignment made only when its option is on.
When(cond, fields) == IF cond THEN fields ELSE NoAttrs
RECURSIVE AssignSeq(_, _, _)
\* A sequence of assignments, in program order.
AssignSeq(h, ref, fieldsSeq) ==
    IF fieldsSeq = <<>> THEN h
    ELSE AssignSeq(Assign(h, ref, Head(fieldsSeq)), ref, Tail(fieldsSeq))

(***************************************************************************)
(* Generators.  A call of a tokenizer or of a filter written with yield    *)
(* runs nothing: it returns a suspended generator, a frame.  A frame holds *)
(* the arguments bound by the call, its place (pc), its local variables    *)
(* (loc) and, for the claims, what it has yielded so far (out).  A pull    *)
(* runs a frame to its next yield or to its end.  S is the pair of the     *)
(* frames and the heap; a pull returns S changed, with its result.         *)
(***************************************************************************)
Frame(idx, stage, text, kw) ==
    [idx |-> idx, stage |-> stage, value |-> text, kw |-> kw, pc |-> "start",
     loc |-> NoAttrs, out |-> <<>>]

YieldedCopy(S, k, ref, pc, loc) ==
    [frames |-> [S.frames EXCEPT ![k].pc = pc, ![k].loc = loc,
                                 ![k].out = Append(@, S.heap[ref])],
     heap |-> Append(S.heap, S.heap[ref]),
     res |-> [kind |-> "token", ref |-> Len(S.heap) + 1]]

\* yield t: the frame is suspended and hands out the reference.
Yielded(S, k, ref, pc, loc) ==
    [frames |-> [S.frames EXCEPT ![k].pc = pc, ![k].loc = loc,
                                 ![k].out = Append(@, S.heap[ref])],
     heap |-> S.heap,
     res |-> [kind |-> "token", ref |-> ref]]

Ended(S, k) ==
    [frames |-> [S.frames EXCEPT ![k].pc = "end"],
     heap |-> S.heap,
     res |-> [kind |-> "stop", ref |-> 0]]

\* The exceptions a call or a pull can raise.
Errors == {"AssertionError", "UnicodeDecodeError", "KeyError", "StopIteration"}

\* raise: the exception leaves the generator, which is finished by it.
Throw(S, k, err) ==
    [frames |-> [S.frames EXCEPT ![k].pc = "end"],
     heap |-> S.heap,
     res |-> [kind |-> err, ref |-> 0]]

\* _assert_utf8 on a str: the value itself.
AssertUtf8(text) == text

TokenizerParams == {"positions", "chars", "keep_original", "remove_stopwords",
                    "start_pos", "start_char", "tokenize", "mode"}

IDTokenizerParams == TokenizerParams \ {"tokenize"}

\* The Token a tokenizer creates when its generator starts.
TokenizerToken(kw, params) ==
    TokenNew(Param(kw, "positions", FALSE), Param(kw, "chars", FALSE),
             Param(kw, "remove_stopwords", TRUE), Param(kw, "mode", ""),
             Rest(kw, params))

\* IDTokenizer.__call__
IDTokenizerPull(S, k) ==
    LET f == S.frames[k]
        kw == f.kw
        text == AssertUtf8(f.value)
        t == Len(S.heap) + 1
        h0 == Append(S.heap, TokenizerToken(kw, IDTokenizerParams))
        h1 == AssignSeq(h0, t,
                  << [text |-> text], [boost |-> 1],
                     When(Param(kw, "keep_original", FALSE), [original_text |-> text]),
                     When(Param(kw, "positions", FALSE),
                          [pos |-> Param(kw, "start_pos", 0) + 1]),
                     When(Param(kw, "chars", FALSE),
                          [start_char |-> Param(kw, "start_char", 0),
                           end_char |-> Param(kw, "start_char", 0) + Len(text)]) >>)
    IN  IF f.pc = "start"
        THEN Yielded([S EXCEPT !.heap = h1], k, t, "last", [t |-> t])
        ELSE Ended(S, k)

GapAlways(start, end) == TRUE

\* if text: the gap before a separator match makes a token
GapHasText(start, end) == end > start

\* The next separator match, from match number i on, that has text before it.
RECURSIVE GapScan(_, _, _)
GapScan(matches, i, prevend) ==
    IF i >= Len(matches)
    THEN [found |-> FALSE, i |-> i, start |-> prevend, end |-> prevend,
          prevend |-> prevend]
    ELSE IF GapHasText(prevend, matches[i + 1].start)
         THEN [found |-> TRUE, i |-> i + 1, start |-> prevend,
               end |-> matches[i + 1].start, prevend |-> matches[i + 1].end]
         ELSE GapScan(matches, i + 1, matches[i + 1].end)

\* RegexTokenizer.__call__
RECURSIVE RegexTokenizerPull(_, _)
RegexTokenizerPull(S, k) ==
    LET f == S.frames[k]
        kw == f.kw
        text == AssertUtf8(f.value)
        positions == Param(kw, "positions", FALSE)
        chars == Param(kw, "chars", FALSE)
        keep_original == Param(kw, "keep_original", FALSE)
        start_pos == Param(kw, "start_pos", 0)
        start_char == Param(kw, "start_char", 0)
        matches == FindIter(text, f.stage.attrs.expression, 0)
        l == f.loc
    IN  CASE f.pc = "start" ->
               LET h0 == Append(S.heap, TokenizerToken(kw, TokenizerParams))
                   pc == IF ~Param(kw, "tokenize", TRUE) THEN "whole"
                         ELSE IF ~f.stage.attrs.gaps THEN "matches" ELSE "gaps"
                   loc == [t |-> Len(h0), i |-> 0, pos |-> start_pos, prevend |-> 0]
               IN  RegexTokenizerPull(
                       [frames |-> [S.frames EXCEPT ![k].pc = pc, ![k].loc = loc],
                        heap |-> h0], k)
          [] f.pc = "whole" ->
               LET h1 == AssignSeq(S.heap, l.t,
                             << [text |-> text], [original_text |-> text], [boost |-> 1],
                                When(positions, [pos |-> start_pos]),
                                When(chars, [start_char |-> start_char,
                                             end_char |-> start_char + Len(text)]) >>)
               IN  Yielded([S EXCEPT !.heap = h1], k, l.t, "last", l)
          [] f.pc = "matches" ->
               IF l.i >= Len(matches) THEN Ended(S, k)
               ELSE LET m == matches[l.i + 1]
                        tx == Slice(text, m.start, m.end)
                        h1 == AssignSeq(S.heap, l.t,
                                  << [text |-> tx], [boost |-> 1],
                                     When(keep_original, [original_text |-> tx]),
                                     [stopped |-> FALSE],
                                     When(positions, [pos |-> start_pos + l.i]),
                                     When(chars, [start_char |-> start_char + m.start]),
                                     When(chars, [start_char |-> start_char + m.end]) >>)
                    IN  Yielded([S EXCEPT !.heap = h1], k, l.t, "matches",
                                [l EXCEPT !.i = l.i + 1])
          [] f.pc = "gaps" ->
               LET g == GapScan(matches, l.i, l.prevend)
                   tx == IF g.found THEN Slice(text, g.start, g.end)
                         ELSE Slice(text, g.prevend, Len(text))
                   h1 == AssignSeq(S.heap, l.t,
                             << [text |-> tx], [boost |-> 1],
                                When(keep_original, [original_text |-> tx]),
                                [stopped |-> FALSE],
                                When(positions, [pos |-> l.pos]),
                                When(chars /\ g.found,
                                     [start_char |-> start_char + g.start,
                                      end_char |-> start_char + g.end]),
                                When(chars /\ ~g.found,
                                     [start_char |-> g.prevend,
                                      end_char |-> Len(text)]) >>)
               IN  IF g.found
                   THEN Yielded([S EXCEPT !.heap = h1], k, l.t, "gaps",
                                [l EXCEPT !.i = g.i, !.prevend = g.prevend,
                                          !.pos = IF positions THEN l.pos + 1 ELSE l.pos])
                   ELSE IF g.prevend < Len(text)
                        THEN Yielded([S EXCEPT !.heap = h1], k, l.t, "last",
                                     [l EXCEPT !.i = g.i, !.prevend = g.prevend])
                        ELSE Ended(S, k)
          [] OTHER -> Ended(S, k)

PathTokenizerParams == {"positions", "start_pos"}

PathSegment(text, match) == Slice(text, match.start, match.end)

\* PathTokenizer.__call__: value[:match.end()]
PathText(text, match) == Slice(text, 0, match.end)

\* PathTokenizer.__call__
PathTokenizerPull(S, k) ==
    LET f == S.frames[k]
        kw == f.kw
        text == AssertUtf8(f.value)
        positions == Param(kw, "positions", FALSE)
        started == f.pc # "start"
        \* Token(positions, **kwargs)
        h0 == IF started THEN S.heap
              ELSE Append(S.heap,
                          TokenNew(positions, Param(kw, "chars", FALSE),
                                   Param(kw, "remove_stopwords", TRUE), Param(kw, "mode", ""),
                                   Rest(kw, PathTokenizerParams
                                                \cup {"chars", "remove_stopwords", "mode"})))
        l == IF started THEN f.loc
             ELSE [t |-> Len(h0), i |-> 0, pos |-> Param(kw, "start_pos", 0)]
        matches == FindIter(text, f.stage.attrs.expr, 0)
    IN  IF l.i >= Len(matches)
        THEN Ended([S EXCEPT !.heap = h0], k)
        ELSE LET h1 == AssignSeq(h0, l.t,
                           << [text |-> PathText(text, matches[l.i + 1])],
                              When(positions, [pos |-> l.pos]) >>)
             IN  Yielded([S EXCEPT !.heap = h1], k, l.t, "loop",
                         [l EXCEPT !.i = l.i + 1,
                                   !.pos = IF positions THEN l.pos + 1 ELSE l.pos])

RECURSIVE CharsetScan(_, _, _)
\* CharsetTokenizer.__call__: the loop over the characters from l.i on, up to
\* its next yield, the end of the value, or a character the map has no key for.
CharsetScan(text, char_map, l) ==
    IF l.i >= Len(text) THEN [kind |-> "tail", l |-> l]
    ELSE LET char == text[l.i + 1]
         IN  IF char \notin DOMAIN char_map THEN [kind |-> "KeyError", l |-> l]
             ELSE IF char_map[char] # <<>>
                  THEN CharsetScan(text, char_map,
                                   [l EXCEPT !.text = l.text \o char_map[char],
                                             !.current = l.current + 1, !.i = l.i + 1])
                  ELSE IF l.current > l.start
                       THEN [kind |-> "yield", l |-> l]
                       ELSE CharsetScan(text, char_map,
                                        [l EXCEPT !.start = l.current + 1, !.text = <<>>,
                                                  !.current = l.current + 1, !.i = l.i + 1])

\* CharsetTokenizer.__call__
RECURSIVE CharsetTokenizerPull(_, _)
CharsetTokenizerPull(S, k) ==
    LET f == S.frames[k]
        kw == f.kw
        text == AssertUtf8(f.value)
        positions == Param(kw, "positions", FALSE)
        chars == Param(kw, "chars", FALSE)
        keep_original == Param(kw, "keep_original", FALSE)
        start_pos == Param(kw, "start_pos", 0)
        start_char == Param(kw, "start_char", 0)
        l == f.loc
    IN  CASE f.pc = "start" ->
               LET h0 == Append(S.heap, TokenizerToken(kw, TokenizerParams))
                   pc == IF ~Param(kw, "tokenize", TRUE) THEN "whole" ELSE "loop"
                   loc == [t |-> Len(h0), i |-> 0, text |-> <<>>, pos |-> start_pos,
                           start |-> start_char, current |-> start_char]
               IN  CharsetTokenizerPull(
                       [frames |-> [S.frames EXCEPT ![k].pc = pc, ![k].loc = loc],
                        heap |-> h0], k)
          [] f.pc = "whole" ->
               LET h1 == AssignSeq(S.heap, l.t,
                             << [text |-> text], [original_text |-> text], [boost |-> 1],
                                When(positions, [pos |-> start_pos]),
                                When(chars, [start_char |-> start_char,
                                             end_char |-> start_char + Len(text)]) >>)
               IN  Yielded([S EXCEPT !.heap = h1], k, l.t, "last", l)
          [] f.pc = "loop" ->
               LET r == CharsetScan(text, f.stage.attrs.char_map, l)
                   tx == IF r.kind = "yield" THEN r.l.text
                         ELSE PySlice(text, r.l.start, r.l.current)
                   h1 == AssignSeq(S.heap, l.t,
                             << [text |-> tx], [boost |-> 1],
                                When(keep_original, [original_text |-> tx]),
                                When(positions, [pos |-> r.l.pos]),
                                When(chars, [start_char |-> r.l.start,
                                             end_char |-> r.l.current]) >>)
               IN  IF r.kind = "KeyError" THEN Throw(S, k, "KeyError")
                   ELSE IF r.kind = "yield"
                   THEN Yielded([S EXCEPT !.heap = h1], k, l.t, "loop",
                                [r.l EXCEPT !.pos = IF positions THEN r.l.pos + 1 ELSE r.l.pos,
                                            !.start = r.l.current + 1, !.text = <<>>,
                                            !.current = r.l.current + 1, !.i = r.l.i + 1])
                   ELSE IF r.l.current > r.l.start
                        THEN Yielded([S EXCEPT !.heap = h1], k, l.t, "last", r.l)
                        ELSE Ended(S, k)
          [] OTHER -> Ended(S, k)

TokenizeParams == {"positions", "chars", "start_pos", "start_char"}

\* core.tokenize: the stream of a sequence of strings (f.value)
TokenizePull(S, k) ==
    LET f == S.frames[k]
        kw == f.kw
        positions == Param(kw, "positions", FALSE)
        chars == Param(kw, "chars", FALSE)
        started == f.pc # "start"
        h0 == IF started THEN S.heap
              ELSE Append(S.heap,
                          TokenNew(positions, chars, Param(kw, "remove_stopwords", TRUE),
                                   Param(kw, "mode", ""),
                                   Rest(kw, TokenizeParams \cup {"remove_stopwords", "mode"})))
        l == IF started THEN f.loc
             ELSE [t |-> Len(h0), i |-> 0, pos |-> Param(kw, "start_pos", 0),
                   char |-> Param(kw, "start_char", 0)]
    IN  IF f.pc = "end" \/ l.i >= Len(f.value)
        THEN Ended([S EXCEPT !.heap = h0], k)
        ELSE LET tx == f.value[l.i + 1]
                 h1 == AssignSeq(h0, l.t,
                           << [text |-> tx],
                              When(positions, [pos |-> l.pos]),
                              When(chars, [start_char |-> l.char,
                                           end_char |-> l.char + Len(tx)]) >>)
             IN  Yielded([S EXCEPT !.heap = h1], k, l.t, "loop",
                         [l EXCEPT !.i = l.i + 1,
                                   !.pos = IF positions THEN l.pos + 1 ELSE l.pos,
                                   !.char = IF chars THEN l.char + Len(tx) ELSE l.char])
\* The source of core.tokenize, for a frame's stage.
TokenizeFunction == [cls |-> "tokenize", attrs |-> NoAttrs, items |-> <<>>]

NotStopWordStrict(text, attrs) ==
    /\ Len(text) > attrs.min
    /\ (attrs.max = MaxNone \/ Len(text) <= attrs.max)
    /\ text \notin attrs.stops

\* StopFilter.__call__: the test that a token is no stop word.
NotStopWord(text, attrs) ==
    /\ Len(text) >= attrs.min
    /\ (attrs.max = MaxNone \/ Len(text) <= attrs.max)
    /\ text \notin attrs.stops

RenumberAlways(positions, attrs) == TRUE

\* StopFilter.__call__: renumber and t.positions
Renumbers(positions, attrs) == attrs.renumber /\ positions

ChainSkipsFirst(f) == FALSE

\* itertools.chain([t], tokens): the list [t] is not yet used up.
ChainAtFirst(f) == f.stage.cls = "chain" /\ f.pc = "start"

\* What a filter's loop body does with the token it took from upstream:
\* the heap and the locals after it, and whether it yields the token.
FilterBody(f, h, u) ==
    LET t == h[u]
    IN  CASE f.stage.cls = "LowercaseFilter" ->
               [heap |-> Assign(h, u, [text |-> Lower(t.text)]), loc |-> f.loc,
                yields |-> TRUE]
          [] f.stage.cls = "StemFilter" ->
               [heap |-> IF ~t.stopped /\ t.text \notin f.stage.attrs.ignore
                         THEN Assign(h, u, [text |-> Stem(t.text)])
                         ELSE h,
                loc |-> f.loc, yields |-> TRUE]
          [] f.stage.cls = "chain" ->
               [heap |-> h, loc |-> f.loc, yields |-> TRUE]
          [] f.stage.cls = "StopFilter" ->
               IF NotStopWord(t.text, f.stage.attrs)
               THEN IF Renumbers(t._positions, f.stage.attrs)
                    THEN IF ~f.loc.pos_set
                         THEN [heap |-> Assign(h, u, [stopped |-> FALSE]),
                               loc |-> [pos_set |-> TRUE, pos |-> t.pos],
                               yields |-> TRUE]
                         ELSE [heap |-> AssignSeq(h, u, << [pos |-> f.loc.pos + 1],
                                                            [stopped |-> FALSE] >>),
                               loc |-> [pos_set |-> TRUE, pos |-> f.loc.pos + 1],
                               yields |-> TRUE]
                    ELSE [heap |-> Assign(h, u, [stopped |-> FALSE]), loc |-> f.loc,
                          yields |-> TRUE]
               ELSE IF ~t._remove_stopwords
                    THEN [heap |-> Assign(h, u, [stopped |-> TRUE]), loc |-> f.loc,
                          yields |-> TRUE]
                    ELSE [heap |-> h, loc |-> f.loc, yields |-> FALSE]

\* next(gen) on frame k: the source runs to its next yield; a filter pulls
\* from the frame below until its body yields or the stream ends.
RECURSIVE Pull(_, _)
Pull(S, k) ==
    LET f == S.frames[k]
    IN  IF f.pc = "end" THEN Ended(S, k)
        ELSE IF f.pc = "raise" THEN Throw(S, k, f.loc.error)
        ELSE IF f.stage.cls = "IDTokenizer" THEN IDTokenizerPull(S, k)
        ELSE IF f.stage.cls = "PathTokenizer" THEN PathTokenizerPull(S, k)
        ELSE IF f.stage.cls = "CharsetTokenizer" THEN CharsetTokenizerPull(S, k)
        ELSE IF f.stage.cls = "RegexTokenizer" THEN RegexTokenizerPull(S, k)
        ELSE IF f.stage.cls = "tokenize" THEN TokenizePull(S, k)
        ELSE IF ChainAtFirst(f) THEN Yielded(S, k, f.loc.t, "loop", f.loc)
        ELSE LET up == Pull(S, k - 1)
                 S1 == [frames |-> up.frames, heap |-> up.heap]
             IN  IF up.res.kind = "stop" THEN Ended(S1, k)
                 ELSE IF up.res.kind # "token" THEN Throw(S1, k, up.res.kind)
                 ELSE LET body == FilterBody(f, up.heap, up.res.ref)
                          S2 == [frames |-> [up.frames EXCEPT ![k].pc = "loop",
                                                              ![k].loc = body.loc],
                                 heap |-> body.heap]
                      IN  IF body.yields
                          THEN Yielded(S2, k, up.res.ref, "loop", body.loc)
                          ELSE Pull(S2, k)

\* The locals a filter's generator starts with.
FilterFrame(idx, stage) ==
    [Frame(idx, stage, <<>>, NoAttrs) EXCEPT
        !.loc = IF stage.cls = "StopFilter" THEN [pos_set |-> FALSE, pos |-> 0]
                ELSE NoAttrs]

\* item(gen): PassFilter returns the stream it was given; the other filters
\* return a new generator over it.
ApplyFilter(fs, idx, stage) ==
    IF stage.cls = "PassFilter" THEN fs ELSE Append(fs, FilterFrame(idx, stage))

SkipsNothing(skip, stage) == FALSE

\* CompositeAnalyzer.__call__: no_morph and hasattr(item, "is_morph") and item.is_morph
Skips(skip, stage) == skip /\ IsMorph(stage)

RECURSIVE RunFilters(_, _, _, _)
\* CompositeAnalyzer.__call__: the loop over items[1:], from index idx on
RunFilters(fs, items, idx, skip) ==
    IF idx >= Len(items) THEN fs
    ELSE RunFilters(IF Skips(skip, items[idx + 1]) THEN fs
                    ELSE ApplyFilter(fs, idx, items[idx + 1]),
                    items, idx + 1, skip)

\* CompositeAnalyzer.__call__: the stream it returns
CallFrames(items, text, kw, skip) ==
    RunFilters(<<Frame(0, items[1], text, kw)>>, items, 1, skip)

FilterKwargsPassed(kw) == kw

\* CompositeAnalyzer.__call__: item(gen) passes the stream and no keyword
FilterKwargs(kw) == NoAttrs

RECURSIVE FilterCalls(_, _, _, _)
FilterCalls(items, idx, kw, skip) ==
    IF idx >= Len(items) THEN <<>>
    ELSE (IF Skips(skip, items[idx + 1]) THEN <<>>
          ELSE <<[idx |-> idx, stage |-> items[idx + 1], kw |-> FilterKwargs(kw)]>>)
         \o FilterCalls(items, idx + 1, kw, skip)

\* CompositeAnalyzer.__call__: the stages it invokes, with the keywords each gets
StageCalls(items, kw, skip) ==
    <<[idx |-> 0, stage |-> items[1], kw |-> kw]>> \o FilterCalls(items, 1, kw, skip)
(***************************************************************************)
(* Calling a pipeline and consuming its stream.                            *)
(***************************************************************************)
MaxTextLen == 3

MaxFilters == 2

MaxCopies == 1

Alphabet == {"S", " "}

RECURSIVE Texts(_)
\* The texts of at most n characters.
Texts(n) ==
    IF n = 0 THEN {<<>>}
    ELSE Texts(n - 1) \cup {Append(t, ch) : t \in Texts(n - 1), ch \in Alphabet}

CallTokenizers == {RegexTokenizer(WordChars, FALSE), IDTokenizer}

CallFilters == {LowercaseFilter, PassFilter, StemFilter,
                StopFilter({<<"s">>}, 1, MaxNone, FALSE)}

RECURSIVE Pipelines(_)
\* The pipelines composed of a tokenizer and at most n filters.
Pipelines(n) ==
    IF n = 0 THEN {}
    ELSE IF n = 1 THEN {Or(t, f).value : t \in CallTokenizers, f \in CallFilters}
    ELSE Pipelines(n - 1) \cup {Or(p, f).value : p \in Pipelines(n - 1), f \in CallFilters}

\* The keyword options of the calls.
KwargChoices ==
    { NoAttrs,
      [positions |-> TRUE, chars |-> TRUE, start_pos |-> 1, start_char |-> 2,
       keep_original |-> TRUE, field_boost |-> 2],
      [positions |-> TRUE, remove_stopwords |-> FALSE, mode |-> "query"],
      [keep_original |-> TRUE],
      [tokenize |-> FALSE, positions |-> TRUE, chars |-> TRUE] }

InitCall ==
    /\ a = NoObj /\ b = NoObj /\ c = NoObj
    /\ IdleAux
    /\ ab = NotRun /\ bc = NotRun /\ left = NotRun /\ right = NotRun /\ both = NotRun
    /\ pipeline \in Pipelines(MaxFilters)
    /\ value = <<>>
    /\ kwargs = NoAttrs
    /\ no_morph = FALSE
    /\ status = "idle"
    /\ frames = <<>>
    /\ heap = <<>>
    /\ calls = <<>>
    /\ held = <<>>
    /\ seen = <<>>
    /\ copies = <<>>

\* pipeline(text, no_morph=skip, **kw)
Call(text, kw, skip) ==
    /\ status = "idle"
    /\ IsComposite(pipeline)
    /\ value' = text
    /\ kwargs' = kw
    /\ no_morph' = skip
    /\ frames' = CallFrames(pipeline.items, text, kw, skip)
    /\ calls' = StageCalls(pipeline.items, kw, skip)
    /\ status' = "running"
    /\ UNCHANGED <<pipeline, heap, held, seen, copies>>
    /\ UNCHANGED compVars
    /\ UNCHANGED auxVars

CallPipeline ==
    \E text \in Texts(MaxTextLen), kw \in KwargChoices, skip \in BOOLEAN :
        Call(text, kw, skip)

\* The consumer takes the next token of the stream and keeps the reference.
NextToken ==
    /\ status = "running"
    /\ LET r == Pull([frames |-> frames, heap |-> heap], Len(frames))
       IN  /\ frames' = r.frames
           /\ heap' = r.heap
           /\ IF r.res.kind = "token"
              THEN /\ held' = Append(held, r.res.ref)
                   /\ seen' = Append(seen, r.heap[r.res.ref])
                   /\ status' = "running"
              ELSE /\ status' = (IF r.res.kind = "stop" THEN "exhausted" ELSE r.res.kind)
                   /\ UNCHANGED <<held, seen>>
    /\ UNCHANGED <<pipeline, value, kwargs, no_morph, calls, copies>>
    /\ UNCHANGED compVars
    /\ UNCHANGED auxVars

\* The consumer copies a token it holds: token.copy()
CopyToken ==
    /\ Len(copies) < MaxCopies
    /\ \E i \in 1..Len(held) :
          /\ heap' = Append(heap, TokenCopy(heap[held[i]]))
          /\ copies' = Append(copies, [ref |-> Len(heap) + 1, of |-> held[i],
                                       was |-> heap[held[i]]])
    /\ UNCHANGED <<pipeline, value, kwargs, no_morph, status, frames, calls, held, seen>>
    /\ UNCHANGED compVars
    /\ UNCHANGED auxVars

NextCall ==
    \/ CallPipeline
    \/ NextToken
    \/ CopyToken

SpecCall == InitCall /\ [][NextCall]_vars
(***************************************************************************)
(* Stop filters applied by hand to the stream of core.tokenize.            *)
(***************************************************************************)
MaxWords == 3

Words == {<<"a">>, <<"a", "S">>, <<"S", "S">>, <<"S", "S", "S">>}

RECURSIVE WordLists(_)
\* The sequences of at most n words.
WordLists(n) ==
    IF n = 0 THEN {<<>>}
    ELSE WordLists(n - 1) \cup {Append(ws, w) : ws \in WordLists(n - 1), w \in Words}

StopFilters ==
    {StopFilter(stops, mn, mx, rn) :
        stops \in {{}, {<<"a", "S">>}}, mn \in {1, 2}, mx \in {MaxNone, 2},
        rn \in BOOLEAN}

\* One stop filter, or one behind a filter that leaves gaps in the positions.
StopChains ==
    {<<f>> : f \in StopFilters}
        \cup {<<StopFilter({<<"a">>}, 1, MaxNone, FALSE), f>> : f \in StopFilters}

StopKwargChoices ==
    { NoAttrs,
      [positions |-> TRUE],
      [positions |-> TRUE, start_pos |-> 1, remove_stopwords |-> FALSE],
      [remove_stopwords |-> FALSE] }

RECURSIVE ApplyChain(_, _, _)
\* f2(f1(stream))
ApplyChain(fs, chain, idx) ==
    IF chain = <<>> THEN fs
    ELSE ApplyChain(ApplyFilter(fs, idx, Head(chain)), Tail(chain), idx + 1)

\* filters(tokenize(words, **kw))
ApplyStopFilters ==
    /\ status = "idle"
    /\ pipeline = NoObj
    /\ \E words \in WordLists(MaxWords), chain \in StopChains, kw \in StopKwargChoices :
          /\ value' = words
          /\ kwargs' = kw
          /\ frames' = ApplyChain(<<Frame(0, TokenizeFunction, words, kw)>>, chain, 1)
    /\ status' = "running"
    /\ UNCHANGED <<pipeline, no_morph, heap, calls, held, seen, copies>>
    /\ UNCHANGED compVars
    /\ UNCHANGED auxVars

InitStop ==
    /\ a = NoObj /\ b = NoObj /\ c = NoObj
    /\ IdleAux
    /\ ab = NotRun /\ bc = NotRun /\ left = NotRun /\ right = NotRun /\ both = NotRun
    /\ IdleCall

NextStop ==
    \/ ApplyStopFilters
    \/ NextToken

SpecStop == InitStop /\ [][NextStop]_vars
(***************************************************************************)
(* Calls of pipelines that hold a MultiFilter.  MultiFilter.__call__ is no *)
(* generator: it runs when the pipeline is called, takes the first token   *)
(* of the stream it is given, and returns what the filter it chose returns *)
(* for chain([t], tokens).                                                 *)
(***************************************************************************)
\* chain([t], tokens), as the stage of a frame
ChainObject == [cls |-> "chain", attrs |-> NoAttrs, items |-> <<>>]

\* MultiFilter.default_filter
DefaultFilter == PassFilter

\* self.filters.get(mode, self.default_filter)
FiltersGet(stage, mode) ==
    IF mode \in DOMAIN stage.attrs.filters THEN stage.attrs.filters[mode]
    ELSE DefaultFilter

RECURSIVE ApplyStage(_, _, _)
\* MultiFilter.__call__ on the stream of S
MultiFilterCall(S, idx, stage) ==
    LET up == Pull([frames |-> S.frames, heap |-> S.heap], Len(S.frames))
        S1 == [S EXCEPT !.frames = up.frames, !.heap = up.heap]
    IN  IF up.res.kind = "stop" THEN [S1 EXCEPT !.error = "StopIteration"]
        ELSE IF up.res.kind # "token" THEN [S1 EXCEPT !.error = up.res.kind]
        ELSE LET filter == FiltersGet(stage, up.heap[up.res.ref]._mode)
                 chain == [Frame(idx, ChainObject, <<>>, NoAttrs) EXCEPT
                              !.loc = [t |-> up.res.ref]]
             IN  ApplyStage([S1 EXCEPT !.frames = Append(up.frames, chain)], idx, filter)

\* item(gen), for any stage: the stream it returns, or the exception it raises
ApplyStage(S, idx, stage) ==
    IF stage.cls = "MultiFilter" THEN MultiFilterCall(S, idx, stage)
    ELSE [S EXCEPT !.frames = ApplyFilter(S.frames, idx, stage)]

RECURSIVE RunStages(_, _, _, _, _)
\* CompositeAnalyzer.__call__: the loop over items[1:], from index idx on,
\* left by the first exception
RunStages(S, items, idx, kw, skip) ==
    IF idx >= Len(items) \/ S.error # "" THEN S
    ELSE IF Skips(skip, items[idx + 1]) THEN RunStages(S, items, idx + 1, kw, skip)
    ELSE RunStages(
             ApplyStage([S EXCEPT !.calls = Append(@, [idx |-> idx, stage |-> items[idx + 1],
                                                      kw |-> FilterKwargs(kw)])],
                        idx, items[idx + 1]),
             items, idx + 1, kw, skip)

\* CompositeAnalyzer.__call__
CallStages(h, items, text, kw, skip) ==
    RunStages([frames |-> <<Frame(0, items[1], text, kw)>>, heap |-> h, error |-> "",
               calls |-> <<[idx |-> 0, stage |-> items[1], kw |-> kw]>>],
              items, 1, kw, skip)

MaxMultiLen == 3

ModeFilters == {LowercaseFilter, StemFilter, StopFilter({<<"a">>}, 1, MaxNone, TRUE)}

\* The MultiFilters of the calls: one or two modes mapped, or a MultiFilter nested.
MultiFilters ==
    {MultiFilter([index |-> f]) : f \in ModeFilters}
        \cup {MultiFilter([index |-> f, query |-> g]) : f, g \in ModeFilters}
        \cup {MultiFilter([query |-> MultiFilter([query |-> f, index |-> PassFilter])]) :
                 f \in ModeFilters}

MultiTokenizer == RegexTokenizer(WordChars, FALSE)

\* tokenizer | MultiFilter, with a filter before it or after it or neither
MultiPipelines ==
    {Or(MultiTokenizer, m).value : m \in MultiFilters}
        \cup {Or(Or(MultiTokenizer, StopFilter({<<"a">>}, 1, MaxNone, FALSE)).value, m).value :
                 m \in MultiFilters}
        \cup {Or(Or(MultiTokenizer, m).value, LowercaseFilter).value : m \in MultiFilters}

MultiAlphabet == {"a", "S", " "}

RECURSIVE MultiTexts(_)
MultiTexts(n) ==
    IF n = 0 THEN {<<>>}
    ELSE MultiTexts(n - 1) \cup {Append(t, ch) : t \in MultiTexts(n - 1), ch \in MultiAlphabet}

MultiKwargChoices ==
    { NoAttrs,
      [mode |-> "index"],
      [mode |-> "query", positions |-> TRUE],
      [mode |-> "other", positions |-> TRUE, remove_stopwords |-> FALSE] }

InitMulti ==
    /\ a = NoObj /\ b = NoObj /\ c = NoObj
    /\ IdleAux
    /\ ab = NotRun /\ bc = NotRun /\ left = NotRun /\ right = NotRun /\ both = NotRun
    /\ pipeline \in MultiPipelines
    /\ value = <<>>
    /\ kwargs = NoAttrs
    /\ no_morph = FALSE
    /\ status = "idle"
    /\ frames = <<>>
    /\ heap = <<>>
    /\ calls = <<>>
    /\ held = <<>>
    /\ seen = <<>>
    /\ copies = <<>>

\* pipeline(text, no_morph=skip, **kw), for a pipeline with any stages
CallMultiPipeline ==
    /\ status = "idle"
    /\ IsComposite(pipeline)
    /\ \E text \in MultiTexts(MaxMultiLen), kw \in MultiKwargChoices, skip \in BOOLEAN :
          LET S == CallStages(heap, pipeline.items, text, kw, skip)
          IN  /\ value' = text
              /\ kwargs' = kw
              /\ no_morph' = skip
              /\ frames' = S.frames
              /\ heap' = S.heap
              /\ calls' = S.calls
              /\ status' = (IF S.error = "" THEN "running" ELSE S.error)
    /\ UNCHANGED <<pipeline, held, seen, copies>>
    /\ UNCHANGED compVars
    /\ UNCHANGED auxVars

NextMulti ==
    \/ CallMultiPipeline
    \/ NextToken

SpecMulti == InitMulti /\ [][NextMulti]_vars
(***************************************************************************)
(* Tokenizers called on their own: tokenizer(value, **kw).  The value is   *)
(* a str, a bytes object or something else.                                *)
(***************************************************************************)
MaxTokLen == 4

TokAlphabet == {"S", " ", "/"}

RECURSIVE TokTexts(_)
TokTexts(n) ==
    IF n = 0 THEN {<<>>}
    ELSE TokTexts(n - 1) \cup {Append(t, ch) : t \in TokTexts(n - 1), ch \in TokAlphabet}

\* The values given to a tokenizer.  A bytes value is the encoding of its
\* text when it is valid UTF-8.
TokInputs ==
    {[kind |-> "str", valid |-> TRUE, text |-> t] : t \in TokTexts(MaxTokLen)}
        \cup {[kind |-> "bytes", valid |-> v, text |-> t] : v \in BOOLEAN, t \in {<<>>, <<"S">>}}
        \cup {[kind |-> "other", valid |-> FALSE, text |-> <<>>]}

\* utf8decode(value): the text of valid UTF-8, an exception otherwise
Utf8Decode(input) ==
    IF input.valid THEN [error |-> "", text |-> input.text]
    ELSE [error |-> "UnicodeDecodeError", text |-> <<>>]

\* _assert_utf8(value), for any value
AssertUtf8Value(input) ==
    IF input.kind = "bytes" THEN Utf8Decode(input)
    ELSE IF input.kind # "str" THEN [error |-> "AssertionError", text |-> <<>>]
    ELSE [error |-> "", text |-> AssertUtf8(input.text)]

\* tokenizer(value, **kw): a generator whose first statement is
\* value = _assert_utf8(value), run by the first pull.
TokenizerFrame(stage, input, kw) ==
    LET r == AssertUtf8Value(input)
    IN  IF r.error = "" THEN Frame(0, stage, r.text, kw)
        ELSE [Frame(0, stage, <<>>, kw) EXCEPT !.pc = "raise", !.loc = [error |-> r.error]]

\* A map for every character: S folded to s, the space a break.
FullMap ==
    [ch \in TokAlphabet |-> IF ch = "S" THEN <<"s">> ELSE IF ch = " " THEN <<>> ELSE <<ch>>]

\* A map that has no key for "/".
PartMap == [ch \in TokAlphabet \ {"/"} |-> FullMap[ch]]

TokTokenizers ==
    {RegexTokenizer({"S"}, FALSE), RegexTokenizer({"S"}, TRUE),
     RegexTokenizer({" ", "/"}, FALSE), RegexTokenizer({" ", "/"}, TRUE),
     IDTokenizer, PathTokenizer({"S", " "}),
     CharsetTokenizer(FullMap), CharsetTokenizer(PartMap)}

TokKwargChoices ==
    { NoAttrs,
      [positions |-> TRUE],
      [chars |-> TRUE, start_char |-> 2],
      [positions |-> TRUE, chars |-> TRUE, start_pos |-> 1, keep_original |-> TRUE],
      [tokenize |-> FALSE, positions |-> TRUE, chars |-> TRUE, start_pos |-> 1] }

InitTok ==
    /\ a = NoObj /\ b = NoObj /\ c = NoObj
    /\ IdleAux
    /\ ab = NotRun /\ bc = NotRun /\ left = NotRun /\ right = NotRun /\ both = NotRun
    /\ pipeline \in TokTokenizers
    /\ value = <<>>
    /\ kwargs = NoAttrs
    /\ no_morph = FALSE
    /\ status = "idle"
    /\ frames = <<>>
    /\ heap = <<>>
    /\ calls = <<>>
    /\ held = <<>>
    /\ seen = <<>>
    /\ copies = <<>>

\* tokenizer(value, **kw)
CallTokenizer ==
    /\ status = "idle"
    /\ IsTokenizer(pipeline)
    /\ \E input \in TokInputs, kw \in TokKwargChoices :
          /\ value' = input
          /\ kwargs' = kw
          /\ frames' = <<TokenizerFrame(pipeline, input, kw)>>
          /\ calls' = <<[idx |-> 0, stage |-> pipeline, kw |-> kw]>>
    /\ status' = "running"
    /\ UNCHANGED <<pipeline, no_morph, heap, held, seen, copies>>
    /\ UNCHANGED compVars
    /\ UNCHANGED auxVars

NextTok ==
    \/ CallTokenizer
    \/ NextToken

SpecTok == InitTok /\ [][NextTok]_vars
(***************************************************************************)
(* Claims about calls, checked under SpecCall.                             *)
(***************************************************************************)
RECURSIVE Drain(_, _)
\* list(stream): every token's attributes as it is yielded
Drain(S, acc) ==
    LET r == Pull(S, Len(S.frames))
    IN  IF r.res.kind = "token"
        THEN Drain([frames |-> r.frames, heap |-> r.heap], Append(acc, r.heap[r.res.ref]))
        ELSE acc

RunPipeline(items, text, kw, skip) ==
    Drain([frames |-> CallFrames(items, text, kw, skip), heap |-> <<>>], <<>>)

RECURSIVE WithoutMorph(_)
\* The stage list with every stage whose is_morph flag is true deleted.
WithoutMorph(items) ==
    IF items = <<>> THEN <<>>
    ELSE (IF Head(items).cls = "StemFilter" THEN <<>> ELSE <<Head(items)>>)
             \o WithoutMorph(Tail(items))

IsPrefix(s, t) == Len(s) <= Len(t) /\ s = SubSeq(t, 1, Len(s))

ExpectedWithoutMorph == RunPipeline(WithoutMorph(pipeline.items), value, kwargs, FALSE)

\* C5: a call with no_morph=True yields what the pipeline without its is_morph
\* stages yields when called without no_morph, and the stages it applies are
\* the stages with is_morph false, in stage-list order.
C5_NoMorphDropsMorphStages ==
    (status # "idle" /\ IsComposite(pipeline) /\ no_morph) =>
        /\ IsPrefix(seen, ExpectedWithoutMorph)
        /\ (status = "exhausted" => seen = ExpectedWithoutMorph)
        /\ [j \in 1..Len(calls) |-> calls[j].stage] = WithoutMorph(pipeline.items)

\* A stream with a stemming stage was read to its end under no_morph, and
\* stemming would have changed it.
C5_Witness ==
    /\ status = "exhausted"
    /\ no_morph
    /\ \E i \in 1..Len(pipeline.items) : pipeline.items[i].cls = "StemFilter"
    /\ seen # <<>>
    /\ seen # RunPipeline(pipeline.items, value, kwargs, FALSE)

\* C6 (as claimed): every filter stage is invoked with the call's options.
C6_FiltersGetOptions ==
    \A j \in 1..Len(calls) : calls[j].idx >= 1 => calls[j].kw = kwargs

\* C6 (amended): only the stage at position 0 is invoked with the call's
\* options; every filter stage the call applies is invoked with the token
\* stream alone.
C6_OnlyTokenizerGetsOptions ==
    (status # "idle" /\ IsComposite(pipeline)) =>
        /\ calls[1].idx = 0
        /\ calls[1].kw = kwargs
        /\ \A j \in 1..Len(calls) : j >= 2 => calls[j].kw = NoAttrs
        /\ \A k \in 1..Len(frames) : k >= 2 => frames[k].kw = NoAttrs

\* A pipeline with two filters was called with options.
C6_Witness ==
    /\ status = "running"
    /\ kwargs # NoAttrs
    /\ Len(calls) = 3
    /\ Len(frames) = 3

\* C7: every token of one stream is the same record, and after a pull every
\* reference kept from an earlier pull shows the token just yielded.
C7_OneSharedToken ==
    /\ \A i \in 1..Len(held) : held[i] = held[1]
    /\ (status = "running" /\ held # <<>>) =>
          \A i \in 1..Len(held) : heap[held[i]] = seen[Len(seen)]

\* A reference kept from the first pull no longer shows what it was yielded with.
C7_Witness ==
    /\ status = "running"
    /\ Len(held) >= 2
    /\ seen[1] # seen[2]
    /\ heap[held[1]] # seen[1]
    /\ Len(frames) >= 2

\* C8: a copy is another record than its original, holds every attribute the
\* original had when it was copied, and keeps them whatever happens to the
\* original afterwards.
C8_CopyIsDetachedAndEqual ==
    \A j \in 1..Len(copies) :
        /\ copies[j].ref # copies[j].of
        /\ heap[copies[j].ref] = copies[j].was
        /\ DOMAIN heap[copies[j].ref] = DOMAIN copies[j].was

\* A token with offsets and an extension field was copied, and the original
\* has changed since.
C8_Witness ==
    /\ copies # <<>>
    /\ heap[copies[1].of] # copies[1].was
    /\ heap[copies[1].ref] = copies[1].was
    /\ copies[1].was._positions
    /\ copies[1].was._chars
    /\ copies[1].was.pos > 0
    /\ copies[1].was.original_text # <<>>
    /\ "field_boost" \in DOMAIN copies[1].was
(***************************************************************************)
(* Claims about the stop filter, checked under SpecStop.  The input of the *)
(* filter in frame k is what frame k - 1 has yielded: a filter is back at  *)
(* its yield, or at its end, only after it has dealt with every token it   *)
(* took.                                                                   *)
(***************************************************************************)
IsStopFrame(k) == k >= 2 /\ frames[k].stage.cls = "StopFilter"

\* The stop condition of the claim, for stop set S, minimum m and maximum M.
StopCondition(text, attrs) ==
    \/ Len(text) < attrs.min
    \/ (attrs.max # MaxNone /\ Len(text) > attrs.max)
    \/ text \in attrs.stops

RECURSIVE NonMatching(_, _)
\* The tokens of a stream that do not match the stop condition, in order.
NonMatching(stream, attrs) ==
    IF stream = <<>> THEN <<>>
    ELSE (IF StopCondition(Head(stream).text, attrs) THEN <<>> ELSE <<Head(stream)>>)
             \o NonMatching(Tail(stream), attrs)

\* The input tokens the claim has the filter emit.
Emitted(stream, attrs) ==
    IF stream # <<>> /\ Head(stream)._remove_stopwords
    THEN NonMatching(stream, attrs)
    ELSE stream

\* The same token, whatever its position and its stopped mark.
SameToken(x, y) ==
    [x EXCEPT !.pos = 0, !.stopped = FALSE] = [y EXCEPT !.pos = 0, !.stopped = FALSE]

\* C9: with remove_stopwords on, a stop filter emits exactly the input tokens
\* that do not match the stop condition, in order; with it off it emits every
\* input token, in order, stopped=True on the matching ones and stopped=False
\* on the others.
C9_StopFilterOutput ==
    \A k \in 1..Len(frames) : IsStopFrame(k) =>
        LET attrs == frames[k].stage.attrs
            out == frames[k].out
            exp == Emitted(frames[k - 1].out, attrs)
        IN  /\ Len(out) = Len(exp)
            /\ \A j \in 1..Len(out) :
                  /\ SameToken(out[j], exp[j])
                  /\ out[j].stopped = StopCondition(exp[j].text, attrs)

\* A stream was filtered to its end with remove_stopwords off: a token below
\* the minimum and one above the maximum were marked, another was not.
C9_Witness ==
    /\ status = "exhausted"
    /\ Len(frames) = 2
    /\ IsStopFrame(2)
    /\ Len(frames[2].out) = 3
    /\ \E i, j, n \in 1..3 :
          /\ frames[2].out[i].stopped
          /\ Len(frames[2].out[i].text) < frames[2].stage.attrs.min
          /\ frames[2].out[j].stopped
          /\ frames[2].stage.attrs.max # MaxNone
          /\ Len(frames[2].out[j].text) > frames[2].stage.attrs.max
          /\ ~frames[2].out[n].stopped

\* A stream was filtered to its end with remove_stopwords on, and a stop word
\* of the stop set was dropped between two tokens that were kept.
C9_WitnessRemoved ==
    /\ status = "exhausted"
    /\ Len(frames) = 2
    /\ IsStopFrame(2)
    /\ Len(frames[1].out) = 3
    /\ frames[1].out[2].text \in frames[2].stage.attrs.stops
    /\ Len(frames[2].out) = 2

\* C10: with renumber=True on a stream with positions, the non-stopped tokens
\* a stop filter emits carry p, p + 1, ... where p is the original position
\* of the first of them; otherwise every emitted token keeps its position.
C10_Renumbering ==
    \A k \in 1..Len(frames) : IsStopFrame(k) =>
        LET attrs == frames[k].stage.attrs
            out == frames[k].out
            exp == Emitted(frames[k - 1].out, attrs)
            kept == NonMatching(frames[k - 1].out, attrs)
            passed == NonMatching(out, attrs)
        IN  /\ Len(out) = Len(exp)
            /\ Len(passed) = Len(kept)
            /\ IF attrs.renumber /\ out # <<>> /\ out[1]._positions
               THEN \A j \in 1..Len(passed) : passed[j].pos = kept[1].pos + (j - 1)
               ELSE \A j \in 1..Len(out) : out[j].pos = exp[j].pos

\* A renumbering filter on a stream with positions that starts above 0: the
\* first token it passed kept its position, a later one was given a new one.
C10_Witness ==
    /\ status = "exhausted"
    /\ \E k \in 1..Len(frames) :
          /\ IsStopFrame(k)
          /\ frames[k].stage.attrs.renumber
          /\ LET kept == NonMatching(frames[k - 1].out, frames[k].stage.attrs)
                 passed == NonMatching(frames[k].out, frames[k].stage.attrs)
             IN  /\ Len(passed) >= 2
                 /\ Len(kept) = Len(passed)
                 /\ passed[1]._positions
                 /\ passed[1].pos > 0
                 /\ passed[1].pos = kept[1].pos
                 /\ \E j \in 1..Len(passed) : passed[j].pos # kept[j].pos
(***************************************************************************)
(* Claims about MultiFilter, checked under SpecMulti.                      *)
(***************************************************************************)
RECURSIVE Chosen(_, _)
\* The filter a stage stands for on a stream of a mode: for a MultiFilter the
\* sub-filter mapped to the mode, the pass-through default when none is.
Chosen(stage, mode) ==
    IF stage.cls # "MultiFilter" THEN stage
    ELSE IF mode \in DOMAIN stage.attrs.filters
         THEN Chosen(stage.attrs.filters[mode], mode)
         ELSE PassFilter

RECURSIVE ChosenFrames(_, _, _, _, _)
\* The stream of the stage list with the chosen filter in place of every
\* MultiFilter, each applied to the entire stream below it.
ChosenFrames(fs, items, idx, mode, skip) ==
    IF idx >= Len(items) THEN fs
    ELSE ChosenFrames(IF skip /\ items[idx + 1].cls = "StemFilter" THEN fs
                      ELSE ApplyFilter(fs, idx, Chosen(items[idx + 1], mode)),
                      items, idx + 1, mode, skip)

StreamMode == Param(kwargs, "mode", "")

ExpectedChosen ==
    Drain([frames |-> ChosenFrames(<<Frame(0, pipeline.items[1], value, kwargs)>>,
                                   pipeline.items, 1, StreamMode, no_morph),
           heap |-> <<>>], <<>>)

IsChainFrame(k) == k >= 2 /\ frames[k].stage.cls = "chain"

\* C11: on a stream that has a first token, a MultiFilter's output is the
\* output of the sub-filter mapped to that token's mode (the pass-through
\* default when the mode is unmapped) applied to the entire stream: the first
\* token is handed on once, first, as it was read, then the other tokens.
C11_MultiFilterAppliesChosen ==
    (status \in {"running", "exhausted"} /\ IsComposite(pipeline)) =>
        /\ IsPrefix(seen, ExpectedChosen)
        /\ (status = "exhausted" => seen = ExpectedChosen)
        /\ \A k \in 1..Len(frames) : IsChainFrame(k) =>
              /\ frames[k - 1].out # <<>>
              /\ frames[k - 1].out[1]._mode = StreamMode
              /\ IsPrefix(frames[k].out, frames[k - 1].out)
              /\ Len(frames[k - 1].out) <= Len(frames[k].out) + 1
              /\ (status = "exhausted" => frames[k].out = frames[k - 1].out)

\* A stream of two tokens or more went through a MultiFilter whose mode is
\* mapped to a filter that changed the first token.
C11_Witness ==
    /\ status = "exhausted"
    /\ StreamMode \in {"index", "query"}
    /\ Len(seen) >= 2
    /\ \E k \in 1..Len(frames) :
          /\ IsChainFrame(k)
          /\ k < Len(frames)
          /\ Len(frames[k].out) >= 2
          /\ frames[k].out[1] # frames[k].out[2]
          /\ frames[k + 1].out[1] # frames[k].out[1]
(***************************************************************************)
(* Claims about the tokenizers, checked under SpecTok.                     *)
(***************************************************************************)
\* A tokenizer was called on a str.
CalledOnText == status # "idle" /\ value.kind = "str"

\* ... and asked to split it (tokenize is not False)
CalledToSplit == CalledOnText /\ Param(kwargs, "tokenize", TRUE)

RECURSIVE Texts_(_)
Texts_(tokens) ==
    IF tokens = <<>> THEN <<>> ELSE <<Head(tokens).text>> \o Texts_(Tail(tokens))

RECURSIVE PieceEnd(_, _, _, _)
PieceEnd(text, cls, sep, i) ==
    IF i < Len(text) /\ ((text[i + 1] \in cls) = sep)
    THEN PieceEnd(text, cls, sep, i + 1)
    ELSE i

RECURSIVE Pieces(_, _, _)
\* The text from offset i on, cut into its maximal runs of characters of cls
\* (sep) and of other characters, each with its span [start, end).
Pieces(text, cls, i) ==
    IF i >= Len(text) THEN <<>>
    ELSE LET sep == text[i + 1] \in cls
             j == PieceEnd(text, cls, sep, i)
         IN  <<[start |-> i, end |-> j, sep |-> sep]>> \o Pieces(text, cls, j)

RECURSIVE PiecesOf(_, _)
\* The runs of cls characters (sep true) or the runs between them (sep false).
PiecesOf(pieces, sep) ==
    IF pieces = <<>> THEN <<>>
    ELSE (IF Head(pieces).sep = sep THEN <<Head(pieces)>> ELSE <<>>)
             \o PiecesOf(Tail(pieces), sep)

\* C12 (as claimed): a tokenizer called on the empty string yields no token
\* and raises nothing.
C12_EmptyTextNoToken ==
    (CalledOnText /\ value.text = <<>>) =>
        /\ seen = <<>>
        /\ status \in {"running", "exhausted"}

\* C13 (as claimed): a tokenizer's stream that has yielded a token raises no
\* error on any later pull.
C13_NoErrorAfterToken ==
    (status \in Errors) => seen = <<>>

\* C14 (as claimed): RegexTokenizer with gaps=False and chars=True gives the
\* token of the match spanning [a, b) start_char = s + a and end_char = s + b.
C14_MatchOffsets ==
    (CalledToSplit /\ pipeline.cls = "RegexTokenizer" /\ ~pipeline.attrs.gaps
        /\ Param(kwargs, "chars", FALSE)) =>
        LET spans == PiecesOf(Pieces(value.text, pipeline.attrs.expression, 0), TRUE)
            s == Param(kwargs, "start_char", 0)
        IN  \A j \in 1..Len(seen) :
                /\ seen[j].start_char = s + spans[j].start
                /\ seen[j].end_char = s + spans[j].end

\* C15 (as claimed): RegexTokenizer with gaps=True and chars=True gives every
\* token, the final remainder included, start_char = s + a and
\* end_char = s + b where input[a:b] is the token's text.
C15_GapOffsets ==
    (CalledToSplit /\ pipeline.cls = "RegexTokenizer" /\ pipeline.attrs.gaps
        /\ Param(kwargs, "chars", FALSE)) =>
        LET spans == PiecesOf(Pieces(value.text, pipeline.attrs.expression, 0), FALSE)
            s == Param(kwargs, "start_char", 0)
        IN  \A j \in 1..Len(seen) :
                /\ seen[j].start_char = s + spans[j].start
                /\ seen[j].end_char = s + spans[j].end
RECURSIVE Concat(_)
Concat(texts) == IF texts = <<>> THEN <<>> ELSE Head(texts) \o Concat(Tail(texts))

RECURSIVE Interleave(_, _)
\* xs[1], ys[1], xs[2], ys[2], ...
Interleave(xs, ys) ==
    IF xs = <<>> THEN ys ELSE <<Head(xs)>> \o Interleave(ys, Tail(xs))

\* The texts of the tokens of tokenizer(text, **kw)
TokenTexts(stage, text, kw) ==
    Texts_(Drain([frames |-> <<Frame(0, stage, text, kw)>>, heap |-> <<>>], <<>>))

PieceTexts(text, pieces) ==
    [j \in 1..Len(pieces) |-> Slice(text, pieces[j].start, pieces[j].end)]

\* C16: RegexTokenizer(pattern, gaps=True) emits the non-empty pieces of the
\* text between the separator matches, a leading piece and a trailing
\* remainder included, in order; interleaved in source order with the matches
\* (the tokens of gaps=False) they concatenate to the text.
C16_GapsPartitionText ==
    (CalledToSplit /\ pipeline.cls = "RegexTokenizer" /\ pipeline.attrs.gaps) =>
        LET text == value.text
            cls == pipeline.attrs.expression
            between == PieceTexts(text, PiecesOf(Pieces(text, cls, 0), FALSE))
            matched == TokenTexts(RegexTokenizer(cls, FALSE), text, kwargs)
            gaps == Texts_(seen)
        IN  /\ IsPrefix(gaps, between)
            /\ status # "running" =>
                  /\ status = "exhausted"
                  /\ gaps = between
                  /\ Concat(IF text # <<>> /\ text[1] \in cls
                            THEN Interleave(matched, gaps)
                            ELSE Interleave(gaps, matched)) = text

\* A text with a leading piece, two separators in a row and a trailing
\* remainder was split to its end.
C16_Witness ==
    /\ CalledToSplit
    /\ pipeline.cls = "RegexTokenizer"
    /\ pipeline.attrs.gaps
    /\ status = "exhausted"
    /\ Len(seen) = 2
    /\ Len(value.text) = 4
    /\ value.text[1] \notin pipeline.attrs.expression
    /\ value.text[2] \in pipeline.attrs.expression
    /\ value.text[3] \in pipeline.attrs.expression
    /\ value.text[4] \notin pipeline.attrs.expression

\* C17: PathTokenizer emits one token per path segment, in order, the i-th
\* being the prefix of the input that ends where the i-th segment ends; every
\* token is a proper prefix of the next; a trailing delimiter adds no token.
C17_PathPrefixes ==
    (CalledOnText /\ pipeline.cls = "PathTokenizer") =>
        LET text == value.text
            segments == PiecesOf(Pieces(text, pipeline.attrs.expr, 0), TRUE)
        IN  /\ Len(seen) <= Len(segments)
            /\ status # "running" => (status = "exhausted" /\ Len(seen) = Len(segments))
            /\ \A j \in 1..Len(seen) : seen[j].text = Slice(text, 0, segments[j].end)
            /\ \A j \in 1..(Len(seen) - 1) :
                  /\ IsPrefix(seen[j].text, seen[j + 1].text)
                  /\ Len(seen[j].text) < Len(seen[j + 1].text)

\* A path of two segments that ends with a delimiter was read to its end.
C17_Witness ==
    /\ CalledOnText
    /\ pipeline.cls = "PathTokenizer"
    /\ status = "exhausted"
    /\ Len(seen) = 2
    /\ seen[1].text # seen[2].text
    /\ value.text # <<>>
    /\ value.text[Len(value.text)] \notin pipeline.attrs.expr

RECURSIVE TranslatedPieces(_, _, _, _)
\* The reference of the claim: each character from offset i on translated
\* through the map, the text split at the breaks, the non-empty pieces kept.
TranslatedPieces(text, char_map, i, piece) ==
    IF i >= Len(text) THEN (IF piece # <<>> THEN <<piece>> ELSE <<>>)
    ELSE IF char_map[text[i + 1]] = <<>>
         THEN (IF piece # <<>> THEN <<piece>> ELSE <<>>)
                  \o TranslatedPieces(text, char_map, i + 1, <<>>)
         ELSE TranslatedPieces(text, char_map, i + 1, piece \o char_map[text[i + 1]])

\* C18 (as claimed): the texts of the tokens of CharsetTokenizer are the
\* reference, the last token's included, and none is empty.
C18_CharsetTexts ==
    (CalledToSplit /\ pipeline.cls = "CharsetTokenizer"
        /\ \A i \in 1..Len(value.text) : value.text[i] \in DOMAIN pipeline.attrs.char_map) =>
        LET reference == TranslatedPieces(value.text, pipeline.attrs.char_map, 0, <<>>)
        IN  /\ IsPrefix(Texts_(seen), reference)
            /\ status = "exhausted" => Texts_(seen) = reference
            /\ \A j \in 1..Len(seen) : seen[j].text # <<>>
(***************************************************************************)
(* Equality of pipelines: a == b.                                          *)
(***************************************************************************)
RECURSIVE StageEq(_, _)
\* x == y for two stages: the __eq__ of the class of x
StageEq(x, y) ==
    CASE x.cls = "RegexTokenizer" ->
             \* RegexTokenizer.__eq__: the class and the pattern
             x.cls = y.cls /\ x.attrs.expression = y.attrs.expression
      [] x.cls \in {"IDTokenizer", "PathTokenizer"} ->
             \* Tokenizer.__eq__: the class
             x.cls = y.cls
      [] x.cls = "CharsetTokenizer" ->
             x.cls = y.cls /\ x.attrs.char_map = y.attrs.char_map
      [] x.cls = "StopFilter" ->
             \* StopFilter.__eq__: the class, stops, min and renumber
             /\ x.cls = y.cls
             /\ x.attrs.stops = y.attrs.stops
             /\ x.attrs.min = y.attrs.min
             /\ x.attrs.renumber = y.attrs.renumber
      [] x.cls = "MultiFilter" ->
             \* MultiFilter.__eq__: the class and the filters dict
             /\ x.cls = y.cls
             /\ DOMAIN x.attrs.filters = DOMAIN y.attrs.filters
             /\ \A mode \in DOMAIN x.attrs.filters :
                   StageEq(x.attrs.filters[mode], y.attrs.filters[mode])
      [] OTHER ->
             \* Filter.__eq__: the class and __dict__
             x.cls = y.cls /\ x.attrs = y.attrs

\* self.items == other.items: two lists are equal when they have the same
\* length and equal elements
ItemsEq(xs, ys) ==
    /\ Len(xs) = Len(ys)
    /\ \A i \in 1..Len(xs) : StageEq(xs[i], ys[i])

\* CompositeAnalyzer.__eq__
CompositeEq(self, other) ==
    /\ other.cls = self.cls
    /\ ItemsEq(self.items, other.items)

EqTokenizers ==
    {RegexTokenizer(WordChars, FALSE), RegexTokenizer(WordChars, TRUE),
     RegexTokenizer({" "}, TRUE), IDTokenizer}

EqFilters ==
    {LowercaseFilter,
     StopFilter(StopWords, 2, MaxNone, FALSE), StopFilter(StopWords, 2, 2, FALSE),
     StopFilter({}, 2, MaxNone, FALSE), StopFilter(StopWords, 1, MaxNone, FALSE),
     StopFilter(StopWords, 2, MaxNone, TRUE)}

\* tokenizer | filter and tokenizer | LowercaseFilter | filter
EqPipelines ==
    {Or(t, f).value : t \in EqTokenizers, f \in EqFilters}
        \cup {Or(Or(t, LowercaseFilter).value, f).value : t \in EqTokenizers, f \in EqFilters}

InitEq ==
    /\ a \in EqPipelines
    /\ b \in EqPipelines
    /\ c = NoObj
    /\ ab = NotRun /\ bc = NotRun /\ left = NotRun /\ right = NotRun /\ both = NotRun
    /\ IdleCall
    /\ IdleAux

\* a == b
CompareEq ==
    /\ equal = "none"
    /\ equal' = (IF CompositeEq(a, b) THEN "True" ELSE "False")
    /\ UNCHANGED <<lang, resources>>
    /\ UNCHANGED compVars
    /\ UNCHANGED callVars

NextEq == CompareEq

SpecEq == InitEq /\ [][NextEq]_vars

\* The same number of stages and, position by position, the same type with
\* the same value in every field the constructor sets.
SameStages(p, q) ==
    /\ Len(p.items) = Len(q.items)
    /\ \A i \in 1..Len(p.items) :
          /\ p.items[i].cls = q.items[i].cls
          /\ p.items[i].attrs = q.items[i].attrs

\* C19 (as claimed): two pipelines compare equal if and only if they have the
\* same stages with the same configuration, the gaps flag of a RegexTokenizer
\* and the maximum of a StopFilter included.
C19_EqualIffSameStages ==
    (equal # "none") => ((equal = "True") <=> SameStages(a, b))
(***************************************************************************)
(* LanguageAnalyzer(lang).  The stop words and the stemmers come from the  *)
(* NLTK installation: the package may be missing, the stopwords corpus may *)
(* be missing (LookupError) or hold no list for the language (OSError),    *)
(* and the RSLP stemmer's rules may be missing (LookupError).              *)
(***************************************************************************)
Built(obj) == [error |-> "", value |-> obj]

Failed(err) == [error |-> err, value |-> NoObj]

Langs == {"english", "portuguese", "klingon"}

LangResources == [nltk : BOOLEAN, stopwords : {"ok", "LookupError", "OSError"}, rslp : BOOLEAN]

\* stopwords.words(lang)
LangWords(l) == {<<"S">>}

\* StopFilter(lang=l): the default stop list, and the words of the language
\* unless looking them up raises LookupError
StopFilterLang(l, env) ==
    IF l = "" THEN Built(StopFilter(StopWords, 2, MaxNone, FALSE))
    ELSE IF ~env.nltk THEN Failed("ImportError")
    ELSE IF env.stopwords = "ok"
         THEN Built(StopFilter(StopWords \cup LangWords(l), 2, MaxNone, FALSE))
    ELSE IF env.stopwords = "LookupError"
         THEN Built(StopFilter(StopWords, 2, MaxNone, FALSE))
         ELSE Failed(env.stopwords)

\* get_stemmer_by_lang(l): the RSLP stemmer for portuguese, Porter otherwise
GetStemmerByLang(l, env) ==
    IF ~env.nltk THEN Failed("ImportError")
    ELSE IF l = "portuguese" /\ ~env.rslp THEN Failed("LookupError")
    ELSE Built([cls |-> IF l = "portuguese" THEN "RSLPStemmer" ELSE "PorterStemmer",
                attrs |-> NoAttrs, items |-> <<>>])

\* StemFilter(lang=l)
StemFilterLang(l, env) ==
    IF GetStemmerByLang(l, env).error # "" THEN GetStemmerByLang(l, env)
    ELSE Built([StemFilter EXCEPT !.attrs.lang = l])

\* LanguageAnalyzer(l, expression, gaps): the try block is left by the first
\* exception, which is swallowed
LanguageAnalyzer(l, expression, gaps, env) ==
    LET chain == Or(RegexTokenizer(expression, gaps), LowercaseFilter).value
        stop == StopFilterLang(l, env)
        stem == StemFilterLang(l, env)
    IN  IF stop.error # "" THEN Built(chain)
        ELSE IF stem.error # "" THEN Built(Or(chain, stop.value).value)
        ELSE Built(Or(Or(chain, stop.value).value, stem.value).value)

InitLang ==
    /\ a = NoObj /\ b = NoObj /\ c = NoObj
    /\ ab = NotRun /\ bc = NotRun /\ left = NotRun /\ right = NotRun /\ both = NotRun
    /\ IdleCall
    /\ equal = "none"
    /\ lang \in Langs
    /\ resources \in LangResources

\* pipeline = LanguageAnalyzer(lang, expression, gaps)
BuildLanguageAnalyzer ==
    /\ pipeline = NoObj
    /\ lang # ""
    /\ \E expression \in {WordChars, {"S"}}, gaps \in BOOLEAN :
          LET r == LanguageAnalyzer(lang, expression, gaps, resources)
          IN  /\ pipeline' = r.value
              /\ status' = (IF r.error = "" THEN status ELSE r.error)
    /\ UNCHANGED <<value, kwargs, no_morph, frames, heap, calls, held, seen, copies>>
    /\ UNCHANGED compVars
    /\ UNCHANGED auxVars

NextLang == BuildLanguageAnalyzer

SpecLang == InitLang /\ [][NextLang]_vars

HasStage(p, cls) == \E i \in 1..Len(p.items) : p.items[i].cls = cls

\* The stop words of the language can be had.
StopwordsAvailable == resources.nltk /\ resources.stopwords = "ok"

\* The stemmer of the language can be had.
StemmerAvailable == resources.nltk /\ (lang = "portuguese" => resources.rslp)

\* C20 (as claimed): LanguageAnalyzer(lang) never fails, and its pipeline has
\* a stop-word stage exactly when the stop words of lang are available and a
\* stemming stage exactly when the stemmer of lang is available.
C20_StagesFollowResources ==
    (lang # "" /\ (pipeline # NoObj \/ status # "idle")) =>
        /\ status = "idle"
        /\ IsComposite(pipeline)
        /\ HasStage(pipeline, "StopFilter") <=> StopwordsAvailable
        /\ HasStage(pipeline, "StemFilter") <=> StemmerAvailable
(***************************************************************************)
(* Claims about empty streams and no_morph, checked under SpecMulti.       *)
(***************************************************************************)
\* The place of the first MultiFilter in a stage list.
FirstMultiFilter(items) ==
    CHOOSE i \in 1..Len(items) :
        /\ items[i].cls = "MultiFilter"
        /\ \A j \in 1..(i - 1) : items[j].cls # "MultiFilter"

\* The tokens of the stream the first MultiFilter of the pipeline is given.
ReachingMultiFilter ==
    RunPipeline(SubSeq(pipeline.items, 1, FirstMultiFilter(pipeline.items) - 1),
                value, kwargs, no_morph)

\* C21 (as claimed): a pipeline with a MultiFilter, called on an input that
\* leaves the stream reaching the MultiFilter empty, raises nothing at the
\* call or at a pull and yields no token.
C21_EmptyStreamNoError ==
    (status # "idle" /\ IsComposite(pipeline) /\ HasStage(pipeline, "MultiFilter")
        /\ ReachingMultiFilter = <<>>) =>
        /\ status \in {"running", "exhausted"}
        /\ seen = <<>>

\* C22 (as claimed): in a call with no_morph=True no filter whose is_morph
\* flag is true handles a token, a sub-filter of a MultiFilter included.
C22_NoMorphAppliesNoMorphFilter ==
    (status # "idle" /\ IsComposite(pipeline) /\ no_morph) =>
        \A k \in 1..Len(frames) : IsMorph(frames[k].stage) => frames[k].out = <<>>
(***************************************************************************)
(* Claims about positions.                                                 *)
(***************************************************************************)
\* C23 (as claimed): with positions=True and start_pos=p the single token of
\* IDTokenizer has pos = p, as have the first token of RegexTokenizer and of
\* CharsetTokenizer and the single token they yield under tokenize=False.
C23_FirstTokenAtStartPos ==
    (CalledOnText /\ pipeline.cls \in {"IDTokenizer", "RegexTokenizer", "CharsetTokenizer"}
        /\ Param(kwargs, "positions", FALSE) /\ seen # <<>>) =>
        seen[1].pos = Param(kwargs, "start_pos", 0)

\* The other tokenizers do start at start_pos.
C23_OthersAtStartPos ==
    (CalledOnText /\ pipeline.cls \in {"RegexTokenizer", "CharsetTokenizer"}
        /\ Param(kwargs, "positions", FALSE) /\ seen # <<>>) =>
        seen[1].pos = Param(kwargs, "start_pos", 0)

RECURSIVE StrictlyIncreasing(_)
StrictlyIncreasing(ps) ==
    Len(ps) < 2 \/ (ps[1] < ps[2] /\ StrictlyIncreasing(Tail(ps)))

RECURSIVE Positions(_)
Positions(tokens) ==
    IF tokens = <<>> THEN <<>> ELSE <<Head(tokens).pos>> \o Positions(Tail(tokens))

\* C24 (as claimed): a StopFilter given a stream with positions enabled and
\* strictly increasing positions emits tokens, the ones kept with
\* stopped=True included, whose positions are strictly increasing, whatever
\* renumber and remove_stopwords are.
C24_PositionsIncrease ==
    \A k \in 1..Len(frames) :
        (IsStopFrame(k) /\ Param(kwargs, "positions", FALSE)
            /\ StrictlyIncreasing(Positions(frames[k - 1].out))) =>
            StrictlyIncreasing(Positions(frames[k].out))
====
